---- MODULE Spec2Model ----
(***************************************************************************)
(* btc_light: a single-node ledger.  Transactions (src/transactions.py),   *)
(* blocks with proof of work (src/block.py) and the Blockchain object      *)
(* (src/blockchain.py), with the identities a Wallet hands out             *)
(* (src/wallet.py).                                                        *)
(*                                                                         *)
(* A hex string is a sequence: "" is <<>>, '0' is <<0>>.  SHA-256 is an     *)
(* injective function from messages to hex digests: a digest is its        *)
(* leading characters, of which a run is '0', followed by the rest of the  *)
(* digest, which stands for the message.  How long the run of zeros of a   *)
(* message is depends on every field of the message.                       *)
(***************************************************************************)
EXTENDS Integers, Sequences, FiniteSets, TLC

VARIABLES chain, difficulty, mempool, block_reward, clock, last, tampered, held,
          file, mining

vars == <<chain, difficulty, mempool, block_reward, clock, last, tampered, held,
          file, mining>>

(***************************************************************************)
(* Bounds of the model.                                                    *)
(***************************************************************************)
MaxChain == 3
MaxMempool == 1
MaxDifficulty == 2

Min(a, b) == IF a < b THEN a ELSE b
Max(a, b) == IF a < b THEN b ELSE a

(***************************************************************************)
(* Identities.  A wallet owns a key pair; its identity in a transaction is *)
(* the PEM text of the public key, its address is the SHA-256 hex digest   *)
(* of that text.  The two are different strings.                           *)
(***************************************************************************)
Keys == {"A", "B"}

get_pem_public_key(key) == "PEM:" \o key

get_address(key) == "sha256(" \o get_pem_public_key(key) \o ")"

\* A well-formed PEM public key that is not an elliptic-curve key.
PemRSA == "PEM:rsa"

Network == "Network"

\* serialization.load_pem_public_key: the key a PEM text holds, or ValueError.
load_pem_public_key(text) ==
    IF \E k \in Keys : text = get_pem_public_key(k)
    THEN [kind |-> "ec", key |-> CHOOSE k \in Keys : text = get_pem_public_key(k)]
    ELSE IF text = PemRSA THEN [kind |-> "rsa", key |-> "rsa"]
    ELSE [kind |-> "ValueError", key |-> ""]

(***************************************************************************)
(* Transaction                                                             *)
(***************************************************************************)
NoData == [sender_address |-> "", recipient_address |-> "", amount |-> 0]

\* signature is None
None == [kind |-> "None", signer |-> "", data |-> NoData]

Transaction(sender, recipient, amount, signature) ==
    [sender_address |-> sender, recipient_address |-> recipient,
     amount |-> amount, signature |-> signature]

\* bytes.hex() of a signature, or null: an empty byte string is falsy and
\* is written as null too.
SignatureHex(signature) ==
    IF signature.kind = "None" \/ signature.kind = "empty"
    THEN [kind |-> "null", signer |-> "", data |-> NoData]
    ELSE [kind |-> "hex", signer |-> signature.signer, data |-> signature.data]

\* Signed data that leaves the amount out
SigningDataWithoutAmount(tx) ==
    [sender_address |-> tx.sender_address,
     recipient_address |-> tx.recipient_address,
     amount |-> 0]

\* to_dict(include_signature=False), as json.dumps(sort_keys=True) writes it
SigningData(tx) ==
    [sender_address |-> tx.sender_address,
     recipient_address |-> tx.recipient_address,
     amount |-> tx.amount]

\* to_dict(include_signature=True)
to_dict(tx) ==
    [sender_address |-> tx.sender_address,
     recipient_address |-> tx.recipient_address,
     amount |-> tx.amount,
     signature |-> SignatureHex(tx.signature)]

\* private_key.sign(data, ECDSA(SHA256)) with the private key of `key`
EcdsaSign(key, data) == [kind |-> "bytes", signer |-> key, data |-> data]

\* A signing that does not look at the sender
sign_without_sender_check(tx, key) ==
    [raised |-> "",
     tx |-> [tx EXCEPT !.signature = EcdsaSign(key, SigningData(tx))]]

\* sign_transaction: the transaction with its signature set; an empty sender
\* raises ValueError and leaves the transaction as it is.
sign_transaction(tx, key) ==
    IF tx.sender_address = ""
    THEN [raised |-> "ValueError", tx |-> tx]
    ELSE [raised |-> "",
          tx |-> [tx EXCEPT !.signature = EcdsaSign(key, SigningData(tx))]]

\* A verification that treats "Network" like any sender
verify_without_bypass(tx) ==
    IF tx.signature.kind = "None" THEN "False"
    ELSE LET public_key == load_pem_public_key(tx.sender_address)
         IN  IF public_key.kind = "ValueError" THEN "False"
             ELSE IF public_key.kind # "ec" THEN "TypeError"
             ELSE IF /\ tx.signature.kind = "bytes"
                     /\ tx.signature.signer = public_key.key
                     /\ tx.signature.data = SigningData(tx)
                  THEN "True"
                  ELSE "False"

\* verify_signature: "True", "False", or the exception that escapes it.
\* InvalidSignature and ValueError are caught; public_key.verify called with
\* the ECDSA arguments on a key of another algorithm raises TypeError.
verify_signature(tx) ==
    IF tx.sender_address = Network THEN "True"
    ELSE IF tx.signature.kind = "None" THEN "False"
    ELSE LET public_key == load_pem_public_key(tx.sender_address)
         IN  IF public_key.kind = "ValueError" THEN "False"
             ELSE IF public_key.kind # "ec" THEN "TypeError"
             ELSE IF /\ tx.signature.kind = "bytes"
                     /\ tx.signature.signer = public_key.key
                     /\ tx.signature.data = SigningData(tx)
                  THEN "True"
                  ELSE "False"

(***************************************************************************)
(* Block                                                                   *)
(***************************************************************************)
\* A block whose index counts from 1
BlockCountedFromOne(index, transactions, timestamp, prev_hash, nonce, hash) ==
    [index |-> index + 1, transactions |-> transactions,
     timestamp |-> timestamp, prev_hash |-> prev_hash, nonce |-> nonce,
     hash |-> hash]

Block(index, transactions, timestamp, prev_hash, nonce, hash) ==
    [index |-> index, transactions |-> transactions, timestamp |-> timestamp,
     prev_hash |-> prev_hash, nonce |-> nonce, hash |-> hash]

\* A digest that leaves the transactions out of the message
block_string_without_transactions(block) ==
    [index |-> block.index, transactions |-> <<>>,
     timestamp |-> block.timestamp, prev_hash |-> block.prev_hash,
     nonce |-> block.nonce]

\* The message calculate_hash digests: json.dumps(block_data, sort_keys=True)
block_string(block) ==
    [index |-> block.index,
     transactions |-> [i \in 1..Len(block.transactions) |->
                          to_dict(block.transactions[i])],
     timestamp |-> block.timestamp,
     prev_hash |-> block.prev_hash,
     nonce |-> block.nonce]

\* The longest run of leading zeros a digest of the model has.
MaxZeros == MaxDifficulty

\* What one transaction of a message adds to the bytes that are hashed
Weight(dict) ==
    Len(dict.sender_address) + Len(dict.recipient_address)
      + dict.amount \div 10 + Len(dict.signature.signer)

RECURSIVE SumWeights(_)
SumWeights(dicts) ==
    IF dicts = <<>> THEN 0 ELSE Weight(dicts[1]) + SumWeights(Tail(dicts))

\* The number of leading '0' characters of the digest of a message
ZeroRun(message) ==
    (message.nonce + message.index + message.timestamp[2]
       + Len(message.prev_hash) + SumWeights(message.transactions))
      % (MaxZeros + 1)

\* hashlib.sha256(message).hexdigest()
Sha256Hex(message) ==
    LET zeros == ZeroRun(message)
    IN  [i \in 1..(MaxZeros + 1) |-> IF i <= zeros THEN 0 ELSE 15] \o <<message>>

\* calculate_hash
calculate_hash(block) == Sha256Hex(block_string(block))

\* Python's s[:n]
SliceTo(s, n) ==
    IF n >= 0 THEN SubSeq(s, 1, Min(n, Len(s)))
    ELSE SubSeq(s, 1, Max(Len(s) + n, 0))

\* Python's '0' * n
ZeroString(n) == [i \in 1..Max(n, 0) |-> 0]

\* A test of the length of the hash alone
LongEnough(s, prefix) == Len(prefix) <= Len(s)

\* Python's s.startswith(prefix)
StartsWith(s, prefix) ==
    /\ Len(prefix) <= Len(s)
    /\ SubSeq(s, 1, Len(prefix)) = prefix

\* The loop condition of mine_block
NotMined(hash, d) == SliceTo(hash, d) # ZeroString(d)

\* A loop that hashes first and increments the nonce afterwards
RECURSIVE mine_block_hash_first(_, _, _)
mine_block_hash_first(block, d, fuel) ==
    IF ~NotMined(block.hash, d) \/ fuel = 0 THEN block
    ELSE LET hashed == [block EXCEPT !.hash = calculate_hash(block)]
         IN  mine_block_hash_first([hashed EXCEPT !.nonce = @ + 1], d, fuel - 1)

\* mine_block: the block when the loop ends.  `fuel` is the number of
\* iterations left to look at: the zero runs of a message repeat with the
\* nonce after MaxZeros + 1 iterations.
RECURSIVE mine_block(_, _, _)
mine_block(block, d, fuel) ==
    IF ~NotMined(block.hash, d) \/ fuel = 0 THEN block
    ELSE LET next == [block EXCEPT !.nonce = @ + 1]
         IN  mine_block([next EXCEPT !.hash = calculate_hash(next)], d, fuel - 1)

\* Whether the loop of mine_block ends
Terminates(block, d) == ~NotMined(mine_block(block, d, MaxZeros + 1).hash, d)

(***************************************************************************)
(* Blockchain                                                              *)
(***************************************************************************)
\* datetime.now(timezone.utc).isoformat() at clock reading t
isoformat(t) == <<"T", t>>

RECURSIVE SumTxReceived(_, _)
\* A fold that forgets to subtract what the address sent
SumTxReceived(txs, address) ==
    IF txs = <<>> THEN 0
    ELSE LET tx == txs[Len(txs)]
         IN  SumTxReceived(SubSeq(txs, 1, Len(txs) - 1), address)
               + (IF tx.recipient_address = address THEN tx.amount ELSE 0)

RECURSIVE SumTx(_, _)
\* The contribution of a list of transactions to the balance of an address
SumTx(txs, address) ==
    IF txs = <<>> THEN 0
    ELSE LET tx == txs[Len(txs)]
         IN  SumTx(SubSeq(txs, 1, Len(txs) - 1), address)
               + (IF tx.recipient_address = address THEN tx.amount ELSE 0)
               - (IF tx.sender_address = address THEN tx.amount ELSE 0)

\* A balance that reads the latest block alone
get_balance_latest(blocks, address) ==
    IF blocks = <<>> THEN 0
    ELSE SumTx(blocks[Len(blocks)].transactions, address)

RECURSIVE get_balance(_, _)
get_balance(blocks, address) ==
    IF blocks = <<>> THEN 0
    ELSE get_balance(SubSeq(blocks, 1, Len(blocks) - 1), address)
           + SumTx(blocks[Len(blocks)].transactions, address)

\* The last call: its name and arguments, the line it printed last, the
\* exception that escaped it, and what it returned.
NoTx == Transaction("", "", 0, None)

Call(op, tx, address, printed, raised, returned, balance) ==
    [op |-> op, tx |-> tx, address |-> address, printed |-> printed,
     raised |-> raised, returned |-> returned, balance |-> balance]

Init ==
    /\ chain = <<>>
    /\ mempool = <<>>
    /\ difficulty \in 0..MaxDifficulty
    /\ block_reward = 50
    /\ clock = 0
    /\ last = Call("__init__", NoTx, "", "", "", "None", 0)
    /\ tampered = <<>>
    /\ file = <<>>
    /\ mining = <<>>
    /\ held = NoTx

\* create_genesis_block, called once on the empty chain (load_from_file,
\* scripts/main.py)
create_genesis_block ==
    /\ chain = <<>>
    /\ LET genesis_block == Block(0, <<>>, isoformat(clock), <<0>>, 0, <<>>)
           hashed == [genesis_block EXCEPT !.hash = calculate_hash(genesis_block)]
       IN  /\ Terminates(hashed, difficulty)
           /\ chain' = Append(chain, mine_block(hashed, difficulty, MaxZeros + 1))
    /\ clock' = clock + 1
    /\ last' = Call("create_genesis_block", NoTx, "", "mined", "", "Block", 0)
    /\ UNCHANGED <<difficulty, mempool, block_reward, tampered, held, file, mining>>

\* add_transaction without the bypass for "Network": the reward goes through
\* the signature and balance checks like any transfer
admit_without_bypass(blocks, pool, transaction) ==
    IF verify_signature(transaction) # "True"
    THEN [mempool |-> pool, printed |-> "invalid signature", raised |-> ""]
    ELSE IF get_balance(blocks, transaction.sender_address) < transaction.amount
    THEN [mempool |-> pool, printed |-> "insufficient balance", raised |-> ""]
    ELSE [mempool |-> Append(pool, transaction),
          printed |-> "transaction added", raised |-> ""]

\* The body of add_transaction on a ledger with these blocks and this pool:
\* the pool after the call, the line printed and the exception raised.
admit(blocks, pool, transaction) ==
    IF transaction.sender_address = Network
    THEN [mempool |-> Append(pool, transaction), printed |-> "reward added",
          raised |-> ""]
    ELSE LET verified == verify_signature(transaction)
         IN  IF verified \notin {"True", "False"}
             THEN [mempool |-> pool, printed |-> "", raised |-> verified]
             ELSE IF verified = "False"
             THEN [mempool |-> pool, printed |-> "invalid signature",
                   raised |-> ""]
             ELSE IF get_balance(blocks, transaction.sender_address)
                        < transaction.amount
             THEN [mempool |-> pool, printed |-> "insufficient balance",
                   raised |-> ""]
             ELSE [mempool |-> Append(pool, transaction),
                   printed |-> "transaction added", raised |-> ""]

\* add_transaction, on a mempool that holds at most `bound` transactions
add_transaction_within(transaction, bound) ==
    /\ LET r == admit(chain, mempool, transaction)
       IN  /\ Len(r.mempool) <= bound
           /\ mempool' = r.mempool
           /\ last' = Call("add_transaction", transaction, "", r.printed,
                           r.raised, "None", 0)
    /\ UNCHANGED <<chain, difficulty, block_reward, clock, tampered, held, file, mining>>

add_transaction(transaction) == add_transaction_within(transaction, MaxMempool)

\* A reward credited to the sender of rewards instead of the miner
reward_to_network(miner_address) == Transaction(Network, Network, block_reward, None)

\* The reward transaction mine_pending_transactions builds
reward_tx(miner_address) == Transaction(Network, miner_address, block_reward, None)

mine_pending_transactions(miner_address) ==
    LET r == admit(chain, mempool, reward_tx(miner_address))
    IN  IF r.mempool = <<>>
        THEN \* "No transactions to mine."
             /\ last' = Call("mine_pending_transactions", NoTx, miner_address,
                             "no transactions", "", "None", 0)
             /\ UNCHANGED <<chain, difficulty, mempool, block_reward, clock, tampered, held, file, mining>>
        ELSE IF chain = <<>>
        THEN \* get_latest_block raises IndexError: the reward stays in the pool
             /\ Len(mempool) <= MaxMempool
             /\ mempool' = r.mempool
             /\ last' = Call("mine_pending_transactions", NoTx, miner_address,
                             r.printed, "IndexError", "None", 0)
             /\ UNCHANGED <<chain, difficulty, block_reward, clock, tampered, held, file, mining>>
        ELSE /\ Len(chain) < MaxChain
             /\ LET new_block == Block(Len(chain), r.mempool, isoformat(clock),
                                       chain[Len(chain)].hash, 0, <<>>)
                IN  /\ Terminates(new_block, difficulty)
                    /\ chain' = Append(chain, mine_block(new_block, difficulty,
                                                         MaxZeros + 1))
             /\ mempool' = <<>>
             /\ clock' = clock + 1
             /\ last' = Call("mine_pending_transactions", NoTx, miner_address,
                             "block added", "", "None", 0)
             /\ UNCHANGED <<difficulty, block_reward, tampered, held, file, mining>>

\* get_balance(address) called on the ledger
get_balance_call(address) ==
    /\ last' = Call("get_balance", NoTx, address, "", "", "float",
                    get_balance(chain, address))
    /\ UNCHANGED <<chain, difficulty, mempool, block_reward, clock, tampered, held, file, mining>>

RECURSIVE validate_hashes_only(_, _, _)
\* A validation that compares the hashes and leaves out the difficulty check
validate_hashes_only(blocks, i, d) ==
    IF i > Len(blocks)
    THEN [returned |-> "True", printed |-> ""]
    ELSE IF blocks[i].hash # calculate_hash(blocks[i])
            \/ blocks[i - 1].hash # calculate_hash(blocks[i - 1])
    THEN [returned |-> "False", printed |-> "invalid hash"]
    ELSE validate_hashes_only(blocks, i + 1, d)

\* is_chain_valid from 0-based position i - 1 on: the value returned and the
\* line printed.
RECURSIVE validate(_, _, _)
validate(blocks, i, d) ==
    IF i > Len(blocks)
    THEN [returned |-> "True", printed |-> ""]
    ELSE LET current_block == blocks[i]
             prev_block == blocks[i - 1]
         IN  IF current_block.hash # calculate_hash(current_block)
             THEN [returned |-> "False", printed |-> "invalid hash"]
             ELSE IF prev_block.hash # calculate_hash(prev_block)
             THEN [returned |-> "False", printed |-> "invalid hash"]
             ELSE IF ~StartsWith(current_block.hash, ZeroString(d))
             THEN [returned |-> "False", printed |-> "not mined properly"]
             ELSE validate(blocks, i + 1, d)

is_chain_valid ==
    /\ LET v == validate(chain, 2, difficulty)
       IN  last' = Call("is_chain_valid", NoTx, "", v.printed, "", v.returned, 0)
    /\ UNCHANGED <<chain, difficulty, mempool, block_reward, clock, tampered, held, file, mining>>

(***************************************************************************)
(* The callers of the ledger and what they pass.                           *)
(***************************************************************************)
A == get_pem_public_key("A")

B == get_pem_public_key("B")

Signed(tx, key) == sign_transaction(tx, key).tx

\* The transactions a caller submits
Submitted ==
    {Signed(Transaction(A, B, amount, None), "A") : amount \in {10, 60}}
      \cup {Transaction(A, B, 10, None),
            Signed(Transaction(A, B, 10, None), "B"),
            Signed(Transaction(get_address("A"), B, 10, None), "A"),
            Signed(Transaction(PemRSA, B, 10, None), "A")}

\* Wallet.address of A as the CLI passes it, A's identity in transactions, and
\* the name rewards are sent from
Miners == {get_address("A"), A, Network}

Addresses == Miners \cup {B, Network}

\* The callers create the genesis block before anything else.
Next ==
    \/ create_genesis_block
    \/ chain # <<>> /\ \E tx \in Submitted : add_transaction(tx)
    \/ chain # <<>> /\ \E miner \in Miners : mine_pending_transactions(miner)
    \/ \E address \in Addresses : get_balance_call(address)
    \/ is_chain_valid

Spec == Init /\ [][Next]_vars

(***************************************************************************)
(* Blocks mutated from outside the ledger, as tests/test_blockchain.py     *)
(* does once it has seen is_chain_valid accept the chain.                  *)
(***************************************************************************)
MaxTamper == 3

TamperAmounts == {1000, 70}

\* A mutation: what was assigned, in which block, of a chain of which length
Mutation(op, block) == [op |-> op, block |-> block, length |-> Len(chain)]

\* chain[i].transactions[j].amount = amount (positions counted from 1)
tamper_amount(i, j, amount) ==
    /\ Len(tampered) < MaxTamper
    /\ validate(chain, 2, difficulty).returned = "True"
    /\ chain[i].transactions[j].amount # amount
    /\ chain' = [chain EXCEPT ![i].transactions[j].amount = amount]
    /\ tampered' = Append(tampered, Mutation("amount", i))
    /\ last' = Call("tamper_amount", NoTx, "", "", "", "None", 0)
    /\ UNCHANGED <<difficulty, mempool, block_reward, clock, held, file, mining>>

\* chain[i].hash = chain[i].calculate_hash(), with no mining
rehash(i) ==
    /\ Len(tampered) < MaxTamper
    /\ chain[i].hash # calculate_hash(chain[i])
    /\ chain' = [chain EXCEPT ![i].hash = calculate_hash(chain[i])]
    /\ tampered' = Append(tampered, Mutation("hash", i))
    /\ last' = Call("rehash", NoTx, "", "", "", "None", 0)
    /\ UNCHANGED <<difficulty, mempool, block_reward, clock, held, file, mining>>

\* The transfer of scripts/main.py, signed by its sender
Transfer == Signed(Transaction(A, B, 10, None), "A")

NextTamper ==
    \/ create_genesis_block
    \/ chain # <<>> /\ add_transaction(Transfer)
    \/ chain # <<>> /\ mine_pending_transactions(A)
    \/ is_chain_valid
    \/ \E i \in 1..Len(chain) : \E j \in 1..Len(chain[i].transactions) :
           \E amount \in TamperAmounts : tamper_amount(i, j, amount)
    \/ \E i \in 1..Len(chain) : rehash(i)

SpecTamper == Init /\ [][NextTamper]_vars

(***************************************************************************)
(* Blocks of the chain relinked from outside the ledger: prev_hash or      *)
(* index assigned, and the block mined again.                              *)
(***************************************************************************)
\* chain[i].prev_hash = '0', the prev_hash of a genesis block
tamper_prev_hash(i) ==
    /\ Len(tampered) < MaxTamper
    /\ chain[i].prev_hash # <<0>>
    /\ chain' = [chain EXCEPT ![i].prev_hash = <<0>>]
    /\ tampered' = Append(tampered, Mutation("prev_hash", i))
    /\ last' = Call("tamper_prev_hash", NoTx, "", "", "", "None", 0)
    /\ UNCHANGED <<difficulty, mempool, block_reward, clock, held, file, mining>>

\* chain[i].index = index
tamper_index(i, index) ==
    /\ Len(tampered) < MaxTamper
    /\ chain[i].index # index
    /\ chain' = [chain EXCEPT ![i].index = index]
    /\ tampered' = Append(tampered, Mutation("index", i))
    /\ last' = Call("tamper_index", NoTx, "", "", "", "None", 0)
    /\ UNCHANGED <<difficulty, mempool, block_reward, clock, held, file, mining>>

\* chain[i].hash = chain[i].calculate_hash(); chain[i].mine_block(difficulty)
remine(i) ==
    /\ Len(tampered) < MaxTamper
    /\ chain[i].hash # calculate_hash(chain[i])
    /\ LET hashed == [chain[i] EXCEPT !.hash = calculate_hash(chain[i])]
       IN  /\ Terminates(hashed, difficulty)
           /\ chain' = [chain EXCEPT
                           ![i] = mine_block(hashed, difficulty, MaxZeros + 1)]
    /\ tampered' = Append(tampered, Mutation("mine_block", i))
    /\ last' = Call("remine", NoTx, "", "", "", "None", 0)
    /\ UNCHANGED <<difficulty, mempool, block_reward, clock, held, file, mining>>

NextRelink ==
    \/ create_genesis_block
    \/ chain # <<>> /\ mine_pending_transactions(A)
    \/ is_chain_valid
    \/ \E i \in 1..Len(chain) : tamper_prev_hash(i)
    \/ \E i \in 1..Len(chain) : tamper_index(i, 0)
    \/ \E i \in 1..Len(chain) : remine(i)

SpecRelink == Init /\ [][NextRelink]_vars

(***************************************************************************)
(* A Transaction object in the hands of a caller, who signs it, verifies   *)
(* it and assigns its attributes.                                          *)
(***************************************************************************)
\* Bytes no private key has produced, and b''
Garbage == [kind |-> "bytes", signer |-> "nobody", data |-> NoData]

EmptyBytes == [kind |-> "empty", signer |-> "", data |-> NoData]

Senders == {A, B, Network, "", PemRSA, get_address("A")}

Recipients == {A, B}

Amounts == {10, 60}

Constructed ==
    {Transaction(sender, recipient, amount, signature) :
        sender \in Senders, recipient \in Recipients, amount \in Amounts,
        signature \in {None, Garbage, EmptyBytes}}

InitTx ==
    /\ chain = <<>>
    /\ mempool = <<>>
    /\ difficulty = 2
    /\ block_reward = 50
    /\ clock = 0
    /\ last = Call("__init__", NoTx, "", "", "", "None", 0)
    /\ tampered = <<>>
    /\ file = <<>>
    /\ mining = <<>>
    /\ held \in Constructed

\* held.sign_transaction(private key of `key`), as Wallet.sign_transaction
\* calls it
sign_call(key) ==
    /\ LET r == sign_transaction(held, key)
       IN  /\ held' = r.tx
           /\ last' = Call("sign_transaction", r.tx, get_pem_public_key(key),
                           "", r.raised, "None", 0)
    /\ UNCHANGED <<chain, difficulty, mempool, block_reward, clock, tampered, file, mining>>

\* held.verify_signature()
verify_call ==
    /\ LET v == verify_signature(held)
       IN  last' = IF v \in {"True", "False"}
                   THEN Call("verify_signature", held, "", "", "", v, 0)
                   ELSE Call("verify_signature", held, "", "", v, "", 0)
    /\ UNCHANGED <<chain, difficulty, mempool, block_reward, clock, tampered,
                   held, file, mining>>

\* held.amount = amount
set_amount(amount) ==
    /\ held' = [held EXCEPT !.amount = amount]
    /\ last' = Call("set_amount", held', "", "", "", "None", 0)
    /\ UNCHANGED <<chain, difficulty, mempool, block_reward, clock, tampered, file, mining>>

\* held.recipient_address = recipient
set_recipient(recipient) ==
    /\ held' = [held EXCEPT !.recipient_address = recipient]
    /\ last' = Call("set_recipient", held', "", "", "", "None", 0)
    /\ UNCHANGED <<chain, difficulty, mempool, block_reward, clock, tampered, file, mining>>

NextTx ==
    \/ \E key \in Keys : sign_call(key)
    \/ verify_call
    \/ \E amount \in Amounts : set_amount(amount)
    \/ \E recipient \in Recipients : set_recipient(recipient)

SpecTx == InitTx /\ [][NextTx]_vars

(***************************************************************************)
(* The ledger written to blockchain.json and read back, as scripts/cli.py  *)
(* does around every command.  file is <<>> while there is no file and     *)
(* <<data>> once data was dumped to it.                                    *)
(***************************************************************************)
\* The fields of a Blockchain object
Blockchain(chain_, difficulty_, mempool_, block_reward_) ==
    [chain |-> chain_, difficulty |-> difficulty_, mempool |-> mempool_,
     block_reward |-> block_reward_]

\* The ledger the callers hold
Ledger == Blockchain(chain, difficulty, mempool, block_reward)

\* Blockchain.to_dict: the blocks with their transactions as
\* Transaction.to_dict writes them, the pool written field by field
Blockchain_to_dict(self) ==
    [chain |->
        [i \in 1..Len(self.chain) |->
            LET block == self.chain[i]
            IN  [index |-> block.index,
                 transactions |->
                     [j \in 1..Len(block.transactions) |->
                         to_dict(block.transactions[j])],
                 timestamp |-> block.timestamp,
                 prev_hash |-> block.prev_hash,
                 nonce |-> block.nonce,
                 hash |-> block.hash]],
     difficulty |-> self.difficulty,
     mempool |->
        [j \in 1..Len(self.mempool) |->
            LET tx == self.mempool[j]
            IN  [sender_address |-> tx.sender_address,
                 recipient_address |-> tx.recipient_address,
                 amount |-> tx.amount,
                 signature |-> SignatureHex(tx.signature)]],
     block_reward |-> self.block_reward]

\* bytes.fromhex(tx['signature']) if tx['signature'] else None
SignatureFromHex(hex) ==
    IF hex.kind = "null"
    THEN None
    ELSE [kind |-> "bytes", signer |-> hex.signer, data |-> hex.data]

\* The Transaction from_dict builds from a serialized transaction
TransactionFromDict(tx) ==
    Transaction(tx.sender_address, tx.recipient_address, tx.amount,
                SignatureFromHex(tx.signature))

from_dict(data) ==
    Blockchain(
        [i \in 1..Len(data.chain) |->
            LET block_data == data.chain[i]
            IN  Block(block_data.index,
                      [j \in 1..Len(block_data.transactions) |->
                          TransactionFromDict(block_data.transactions[j])],
                      block_data.timestamp, block_data.prev_hash,
                      block_data.nonce, block_data.hash)],
        data.difficulty,
        [j \in 1..Len(data.mempool) |-> TransactionFromDict(data.mempool[j])],
        data.block_reward)

save_to_file ==
    /\ file' = <<Blockchain_to_dict(Ledger)>>
    /\ last' = Call("save_to_file", NoTx, "", "saved", "", "None", 0)
    /\ UNCHANGED <<chain, difficulty, mempool, block_reward, clock, tampered, held, mining>>

\* The difficulty of the ledger load_from_file creates when there is no file
DefaultDifficulty == 3

\* load_from_file, the ledger it returns becoming the one the callers hold.
\* Without a file it builds a ledger of difficulty 3 with its genesis block
\* and saves it; digests have at most MaxZeros leading zeros, so that mining
\* ends only where MaxZeros reaches that difficulty.
load_from_file ==
    IF file = <<>>
    THEN /\ LET genesis_block == Block(0, <<>>, isoformat(clock), <<0>>, 0, <<>>)
                hashed == [genesis_block EXCEPT
                              !.hash = calculate_hash(genesis_block)]
                mined == mine_block(hashed, DefaultDifficulty, MaxZeros + 1)
            IN  /\ Terminates(hashed, DefaultDifficulty)
                /\ chain' = <<mined>>
                /\ file' = <<Blockchain_to_dict(
                                 Blockchain(<<mined>>, DefaultDifficulty, <<>>, 50))>>
         /\ difficulty' = DefaultDifficulty
         /\ mempool' = <<>>
         /\ block_reward' = 50
         /\ clock' = clock + 1
         /\ last' = Call("load_from_file", NoTx, "", "saved", "", "Blockchain", 0)
         /\ UNCHANGED <<tampered, held, mining>>
    ELSE /\ LET blockchain == from_dict(file[1])
            IN  /\ chain' = blockchain.chain
                /\ difficulty' = blockchain.difficulty
                /\ mempool' = blockchain.mempool
                /\ block_reward' = blockchain.block_reward
         /\ last' = Call("load_from_file", NoTx, "", "loaded", "", "Blockchain", 0)
         /\ UNCHANGED <<clock, tampered, held, file, mining>>

\* What is submitted between a load and a save: a signed transfer, and
\* transactions in the name of "Network" carrying some bytes, or no bytes, as
\* their signature
Persisted ==
    {Transfer,
     Transaction(Network, B, 10, Garbage),
     Transaction(Network, B, 10, EmptyBytes)}

\* The clock is read once per block built, MaxChain times at most.
NextPersist ==
    \/ clock < MaxChain /\ create_genesis_block
    \/ chain # <<>> /\ \E tx \in Persisted : add_transaction(tx)
    \/ chain # <<>> /\ clock < MaxChain /\ mine_pending_transactions(A)
    \/ save_to_file
    \/ load_from_file

SpecPersist == Init /\ [][NextPersist]_vars

(***************************************************************************)
(* Callers that break the contract: a ledger constructed with a negative   *)
(* difficulty, and calls made before the genesis block exists.             *)
(***************************************************************************)
\* The number of characters of a digest of Sha256Hex (64 for SHA-256)
DigestLength == MaxZeros + 2

\* self.hash[:d] of a digest is empty from d = -DigestLength down, and all
\* but the last character of the digest at d = -1
Difficulties == {0 - DigestLength, -1, 1}

InitMisuse ==
    /\ chain = <<>>
    /\ mempool = <<>>
    /\ difficulty \in Difficulties
    /\ block_reward = 50
    /\ clock = 0
    /\ last = Call("__init__", NoTx, "", "", "", "None", 0)
    /\ tampered = <<>>
    /\ file = <<>>
    /\ mining = <<>>
    /\ held = NoTx

NextMisuse ==
    \/ create_genesis_block
    \/ \E tx \in {Transfer, Transaction(A, B, 10, None)} : add_transaction(tx)
    \/ \E miner \in {A, B} : mine_pending_transactions(miner)
    \/ \E address \in {A, B} : get_balance_call(address)
    \/ is_chain_valid

SpecMisuse == InitMisuse /\ [][NextMisuse]_vars

(***************************************************************************)
(* Callers that spend: several transfers pending at once, a transfer       *)
(* submitted again, a transfer of a negative amount.                       *)
(***************************************************************************)
MaxPending == MaxMempool + 1

\* A transfer of all that one reward pays
TransferAll == Signed(Transaction(A, B, 50, None), "A")

\* A transfer of a negative amount, signed by its sender
TransferBack == Signed(Transaction(B, A, -10, None), "B")

Spent == {Transfer, TransferAll, TransferBack}

InitSpend ==
    /\ chain = <<>>
    /\ mempool = <<>>
    /\ difficulty = 1
    /\ block_reward = 50
    /\ clock = 0
    /\ last = Call("__init__", NoTx, "", "", "", "None", 0)
    /\ tampered = <<>>
    /\ file = <<>>
    /\ mining = <<>>
    /\ held = NoTx

NextSpend ==
    \/ create_genesis_block
    \/ chain # <<>> /\ \E tx \in Spent : add_transaction_within(tx, MaxPending)
    \/ chain # <<>> /\ \E miner \in {A, B} : mine_pending_transactions(miner)
    \/ \E address \in {A, B} : get_balance_call(address)

SpecSpend == InitSpend /\ [][NextSpend]_vars

(***************************************************************************)
(* The ledger shared by two threads of a service, with no lock: one runs   *)
(* mine_pending_transactions, the other add_transaction.  mining is <<>>   *)
(* or <<new_block>>, the block a call in progress has built and is mining. *)
(***************************************************************************)
\* mine_pending_transactions up to the construction of new_block: the reward
\* is appended and the mempool is copied into the block
mine_begin(miner_address) ==
    /\ mining = <<>>
    /\ Len(chain) < MaxChain
    /\ LET r == admit(chain, mempool, reward_tx(miner_address))
       IN  /\ mempool' = r.mempool
           /\ mining' = <<Block(Len(chain), r.mempool, isoformat(clock),
                                chain[Len(chain)].hash, 0, <<>>)>>
    /\ clock' = clock + 1
    /\ last' = Call("mine_pending_transactions", NoTx, miner_address,
                    "reward added", "", "", 0)
    /\ UNCHANGED <<chain, difficulty, block_reward, tampered, held, file>>

\* mine_pending_transactions from mine_block on: the block is mined and
\* appended, the mempool is cleared
mine_end ==
    /\ mining # <<>>
    /\ Terminates(mining[1], difficulty)
    /\ chain' = Append(chain, mine_block(mining[1], difficulty, MaxZeros + 1))
    /\ mempool' = <<>>
    /\ mining' = <<>>
    /\ last' = Call("mine_pending_transactions", NoTx, last.address,
                    "block added", "", "None", 0)
    /\ UNCHANGED <<difficulty, block_reward, clock, tampered, held, file>>

NextConcurrent ==
    \/ create_genesis_block
    \/ chain # <<>> /\ \E tx \in {Transfer, TransferAll} :
                            add_transaction_within(tx, MaxPending)
    \/ chain # <<>> /\ \E miner \in {A, B} : mine_begin(miner)
    \/ mine_end

SpecConcurrent == Init /\ [][NextConcurrent]_vars

(***************************************************************************)
(* Blocks built by a caller and handed to add_block: a fresh block, and a  *)
(* block that was hashed and mined before the call.                        *)
(***************************************************************************)
\* Block(index=len(chain), transactions=[], timestamp=now, prev_hash='0')
FreshBlock == Block(Len(chain), <<>>, isoformat(clock), <<0>>, 0, <<>>)

\* The same block after hash = calculate_hash() and mine_block(difficulty)
MinedBefore ==
    mine_block([FreshBlock EXCEPT !.hash = calculate_hash(FreshBlock)],
               difficulty, MaxZeros + 1)

\* add_block: prev_hash is assigned, the block is mined and appended; on an
\* empty chain get_latest_block raises IndexError before anything is assigned
add_block(new_block) ==
    IF chain = <<>>
    THEN /\ last' = Call("add_block", NoTx, "", "", "IndexError", "None", 0)
         /\ UNCHANGED <<chain, difficulty, mempool, block_reward, clock, tampered,
                        held, file, mining>>
    ELSE /\ Len(chain) < MaxChain
         /\ LET linked == [new_block EXCEPT !.prev_hash = chain[Len(chain)].hash]
            IN  /\ Terminates(linked, difficulty)
                /\ chain' = Append(chain, mine_block(linked, difficulty,
                                                     MaxZeros + 1))
         /\ clock' = clock + 1
         /\ last' = Call("add_block", NoTx, "", "mined", "", "None", 0)
         /\ UNCHANGED <<difficulty, mempool, block_reward, tampered, held, file,
                        mining>>

NextAddBlock ==
    \/ create_genesis_block
    \/ \E new_block \in {FreshBlock, MinedBefore} : add_block(new_block)
    \/ chain # <<>> /\ add_transaction(Transfer)
    \/ chain # <<>> /\ \E miner \in {A, B} : mine_pending_transactions(miner)
    \/ \E address \in {A, B} : get_balance_call(address)
    \/ is_chain_valid

SpecAddBlock == Init /\ [][NextAddBlock]_vars

(***************************************************************************)
(* Properties of the ledger operations.                                    *)
(***************************************************************************)
LatestBlock == chain[Len(chain)]

HasLeadingZeros(hash, d) == \A k \in 1..d : k <= Len(hash) /\ hash[k] = 0

\* C1: every block create_genesis_block or mine_pending_transactions has
\* appended stores a hash with at least `difficulty` leading '0' characters
\* that equals calculate_hash() of the block, for every difficulty >= 0.
MinedBlocksAreHashed ==
    \A i \in 1..Len(chain) :
        /\ HasLeadingZeros(chain[i].hash, difficulty)
        /\ chain[i].hash = calculate_hash(chain[i])

\* Wallet.address of A has been credited a block reward
RewardedByAddress ==
    \E i \in 1..Len(chain) : \E j \in 1..Len(chain[i].transactions) :
        chain[i].transactions[j] = reward_tx(get_address("A"))

\* C2: once mine_pending_transactions(Wallet.address of A) has credited the
\* reward, the signed transfer of 10 from A (sender get_pem_public_key) to B
\* is admitted to the mempool by add_transaction.
TransferAfterRewardAdmitted ==
    (last.op = "add_transaction" /\ last.tx = Transfer /\ RewardedByAddress)
        => (last.printed = "transaction added" /\ Transfer = mempool[Len(mempool)])

\* C3: add_transaction has four outcomes and no other: a "Network"
\* transaction is appended; a transaction whose signature does not verify is
\* rejected; one whose sender's balance is below the amount is rejected; any
\* other is appended.
AddTransactionOutcomes ==
    last.op = "add_transaction" =>
        /\ last.raised = ""
        /\ last.printed = (IF last.tx.sender_address = Network
                              THEN "reward added"
                           ELSE IF verify_signature(last.tx) = "False"
                              THEN "invalid signature"
                           ELSE IF get_balance(chain, last.tx.sender_address)
                                      < last.tx.amount
                              THEN "insufficient balance"
                           ELSE "transaction added")

\* Sequences of transactions and their sums, for stating balances
RECURSIVE AllTransactions(_)
AllTransactions(blocks) ==
    IF blocks = <<>> THEN <<>>
    ELSE Head(blocks).transactions \o AllTransactions(Tail(blocks))

RECURSIVE SumAmounts(_)
SumAmounts(txs) ==
    IF txs = <<>> THEN 0 ELSE Head(txs).amount + SumAmounts(Tail(txs))

Received(blocks, address) ==
    SumAmounts(SelectSeq(AllTransactions(blocks),
                         LAMBDA tx : tx.recipient_address = address))

Sent(blocks, address) ==
    SumAmounts(SelectSeq(AllTransactions(blocks),
                         LAMBDA tx : tx.sender_address = address))

\* C4: a call of mine_pending_transactions on a non-empty chain appends
\* exactly one block and leaves the mempool empty, also when the mempool was
\* empty before (the block then holds the reward alone); the "nothing to
\* mine" outcome never occurs.
MineAlwaysAppendsOneBlock ==
    [][(last'.op = "mine_pending_transactions" /\ chain # <<>>) =>
          /\ Len(chain') = Len(chain) + 1
          /\ SubSeq(chain', 1, Len(chain)) = chain
          /\ mempool' = <<>>
          /\ last'.printed = "block added"
          /\ \E j \in 1..Len(chain'[Len(chain')].transactions) :
                 chain'[Len(chain')].transactions[j].sender_address = Network]_vars

RewardOnlyBlockMined ==
    /\ last.op = "mine_pending_transactions"
    /\ last.printed = "block added"
    /\ mempool = <<>>
    /\ Len(LatestBlock.transactions) = 1
    /\ LatestBlock.transactions[1].sender_address = Network

BalanceIsReceivedMinusSent ==
    [][last'.op = "get_balance" =>
          /\ last'.balance = Received(chain, last'.address)
                               - Sent(chain, last'.address)
          /\ last'.returned = "float"
          /\ UNCHANGED <<chain, mempool>>]_vars

BalanceIgnoresPendingTransfer ==
    /\ last.op = "get_balance"
    /\ last.address = A
    /\ mempool = <<Transfer>>
    /\ last.balance = 50
    /\ Sent(chain, A) = 0

\* C8: a chain built by create_genesis_block, add_transaction and
\* mine_pending_transactions alone is valid: is_chain_valid() returns true,
\* at every difficulty >= 0.
LedgerBuiltChainIsValid ==
    last.op = "is_chain_valid" => last.returned = "True"

\* Every identity that appears as sender or recipient in the blocks
Identities(blocks) ==
    LET txs == AllTransactions(blocks)
    IN  {txs[i].sender_address : i \in 1..Len(txs)}
          \cup {txs[i].recipient_address : i \in 1..Len(txs)}

RECURSIVE SumBalances(_, _)
SumBalances(ids, blocks) ==
    IF ids = {} THEN 0
    ELSE LET id == CHOOSE x \in ids : TRUE
         IN  get_balance(blocks, id) + SumBalances(ids \ {id}, blocks)

\* C14: the sum of get_balance over all identities that appear as sender or
\* recipient in the chain equals the sum of the amounts of the chain's
\* transactions whose sender is "Network".
BalancesSumToRewards ==
    SumBalances(Identities(chain), chain) = Sent(chain, Network)

\* C14, as the code has it: "Network" is an identity too and its balance is
\* the negative of what it sent, so the sum over all identities is 0; the
\* sum over the identities other than "Network" equals what "Network" sent
\* minus what it received.
BalancesOutsideNetworkSumToRewards ==
    /\ SumBalances(Identities(chain) \ {Network}, chain)
          = Sent(chain, Network) - Received(chain, Network)
    /\ SumBalances(Identities(chain), chain) = 0

RewardsAndTransferBalanced ==
    /\ \E i \in 1..Len(chain) : \E j \in 1..Len(chain[i].transactions) :
           chain[i].transactions[j] = Transfer
    /\ Sent(chain, Network) = 100
    /\ get_balance(chain, Network) = -100
    /\ get_balance(chain, A) = 90
    /\ get_balance(chain, B) = 10

ChainStructure ==
    chain # <<>> =>
        /\ chain[1].index = 0
        /\ chain[1].prev_hash = <<0>>
        /\ chain[1].transactions = <<>>
        /\ \A i \in 2..Len(chain) :
               /\ chain[i].index = i - 1
               /\ chain[i].prev_hash = chain[i - 1].hash

\* C15: on a chain built by create_genesis_block, add_transaction and
\* mine_pending_transactions, the first block has index 0, prev_hash "0" and
\* no transactions, every later block i has index i and the hash of block
\* i - 1 as prev_hash; the chain only grows and its blocks never change.
ChainIsLinkedAndAppendOnly ==
    [][/\ ChainStructure'
       /\ Len(chain') >= Len(chain)
       /\ SubSeq(chain', 1, Len(chain)) = chain]_vars

ThreeBlocksLinked ==
    /\ Len(chain) >= 3
    /\ difficulty > 0
    /\ chain[3].index = 2
    /\ chain[3].prev_hash = chain[2].hash
    /\ chain[2].prev_hash = chain[1].hash
    /\ chain[2].hash # chain[1].hash

\* C16: at difficulty 0, mine_block on a freshly constructed block (hash "",
\* nonce 0), as mine_pending_transactions calls it, returns with nonce 0 and
\* hash = calculate_hash() of the block.
FreshBlockHashedOnce ==
    (/\ difficulty = 0
     /\ last.op = "mine_pending_transactions"
     /\ last.printed = "block added")
        => (LatestBlock.nonce = 0
            /\ LatestBlock.hash = calculate_hash(LatestBlock))

\* A transaction add_transaction does not admit: its signature does not
\* verify, or its sender has received less than it has sent plus the amount.
NotAdmissible(tx) ==
    /\ tx.sender_address # Network
    /\ \/ verify_signature(tx) # "True"
       \/ Received(chain, tx.sender_address) - Sent(chain, tx.sender_address)
              < tx.amount

\* C18: an add_transaction call on a transaction with an invalid signature or
\* an insufficient balance raises no error and leaves chain, mempool,
\* difficulty and block_reward as they were before the call.
RejectionLeavesLedger ==
    [][(last'.op = "add_transaction" /\ NotAdmissible(last'.tx))
          => (/\ last'.raised = ""
              /\ last'.printed \in {"invalid signature", "insufficient balance"}
              /\ UNCHANGED <<chain, mempool, difficulty, block_reward>>)]_vars

\* C19: the value returned by add_transaction tells an admitted transaction
\* from one rejected for its signature and from one rejected for its balance,
\* and the value returned by mine_pending_transactions tells a mined block
\* from nothing mined: two successive calls of the same operation that end
\* differently return different values.
ReturnedValueTellsOutcome ==
    [][(/\ last.op \in {"add_transaction", "mine_pending_transactions"}
        /\ last'.op = last.op
        /\ last.raised = "" /\ last'.raised = ""
        /\ last'.printed # last.printed)
          => last'.returned # last.returned]_vars

\* C17: for every reachable ledger L, from_dict(to_dict(L)) has the same
\* chain (every field of every block, the signature of every transaction
\* included), difficulty, mempool and block_reward as L.
SerializationRoundTrips == from_dict(Blockchain_to_dict(Ledger)) = Ledger

\* The block mine_pending_transactions(miner) builds in this state, before
\* it is mined: nonce 0, hash ""
NewBlock(miner) ==
    Block(Len(chain), admit(chain, mempool, reward_tx(miner)).mempool,
          isoformat(clock), LatestBlock.hash, 0, <<>>)

\* The hash of the block at another nonce
HashAt(block, nonce) == calculate_hash([block EXCEPT !.nonce = nonce])

\* C24: with difficulty d >= 1, mine_block on a block with hash "" and nonce
\* 0 stops at the first nonce n >= 1 whose hash has d leading zeros: the
\* stored hash is calculate_hash() at the final nonce, every nonce between 0
\* and the final nonce gave a hash without d leading zeros, and the loop ends
\* whenever some nonce greater than 0 gives a hash with d leading zeros.
MiningStopsAtFirstNonce ==
    difficulty >= 1 =>
        /\ \A i \in 2..Len(chain) :
               /\ chain[i].nonce >= 1
               /\ chain[i].hash = calculate_hash(chain[i])
               /\ HasLeadingZeros(chain[i].hash, difficulty)
               /\ \A n \in 1..(chain[i].nonce - 1) :
                      ~HasLeadingZeros(HashAt(chain[i], n), difficulty)
        /\ chain # <<>> =>
               \A miner \in Miners :
                   (\E n \in 1..(MaxZeros + 1) :
                        HasLeadingZeros(HashAt(NewBlock(miner), n), difficulty))
                     => Terminates(NewBlock(miner), difficulty)

\* A block mined at difficulty 2 whose first nonce was not good enough
MinedAtLaterNonce ==
    /\ difficulty = 2
    /\ last.op = "mine_pending_transactions"
    /\ last.printed = "block added"
    /\ LatestBlock.nonce >= 2
    /\ LatestBlock.index >= 1

(***************************************************************************)
(* Properties of is_chain_valid, on chains mutated from outside.           *)
(***************************************************************************)
ChainChecksPass ==
    \A i \in 2..Len(chain) :
        /\ chain[i].hash = calculate_hash(chain[i])
        /\ chain[i - 1].hash = calculate_hash(chain[i - 1])
        /\ HasLeadingZeros(chain[i].hash, difficulty)

\* C7: is_chain_valid() returns true exactly when every block after the
\* first stores its calculate_hash(), follows a block that stores its
\* calculate_hash(), and has `difficulty` leading zeros; otherwise it returns
\* false; it never raises and changes no ledger state.  A chain of length 0
\* or 1 is reported valid.
ValidationDecides ==
    [][last'.op = "is_chain_valid" =>
          /\ last'.returned = (IF ChainChecksPass THEN "True" ELSE "False")
          /\ last'.raised = ""
          /\ Len(chain) <= 1 => last'.returned = "True"
          /\ UNCHANGED <<chain, difficulty, mempool, block_reward>>]_vars

RejectedForDifficulty ==
    /\ last.op = "is_chain_valid"
    /\ last.returned = "False"
    /\ last.printed = "not mined properly"
    /\ Len(chain) >= 2
    /\ ~ChainChecksPass

\* The last two mutations changed an amount in a block and then stored the
\* block's calculate_hash(), and no block has been mined since the first
RehashedAfterTampering ==
    LET n == Len(tampered)
    IN  /\ n >= 2
        /\ tampered[n].op = "hash"
        /\ tampered[n - 1].op = "amount"
        /\ tampered[n].block = tampered[n - 1].block
        /\ tampered[n].length = Len(chain)
        /\ tampered[n - 1].length = Len(chain)

TamperedBlock == chain[tampered[Len(tampered)].block]

TamperingDetected ==
    (/\ last.op = "is_chain_valid"
     /\ tampered # <<>>
     /\ tampered[Len(tampered)].op = "amount") =>
        (last.returned = "False" /\ last.printed = "invalid hash")

TamperedBlockRejected ==
    /\ last.op = "is_chain_valid"
    /\ tampered # <<>>
    /\ tampered[Len(tampered)].op = "amount"
    /\ TamperedBlock.hash # calculate_hash(TamperedBlock)
    /\ HasLeadingZeros(TamperedBlock.hash, difficulty)
    /\ difficulty > 0
    /\ last.printed = "invalid hash"

\* C28: in every state where is_chain_valid() has returned true, states
\* reached by assigning the fields of blocks from outside included,
\* chain[i].prev_hash = chain[i-1].hash and chain[i].index = i for every i > 0
\* (blocks are counted from 1 here: chain[i].index = i - 1).
ValidationGuaranteesLinkage ==
    (last.op = "is_chain_valid" /\ last.returned = "True")
        => \A i \in 2..Len(chain) :
               /\ chain[i].prev_hash = chain[i - 1].hash
               /\ chain[i].index = i - 1

(***************************************************************************)
(* Properties of signing and verification.                                 *)
(***************************************************************************)
SenderIsKey(tx) == \E key \in Keys : tx.sender_address = get_pem_public_key(key)

\* C11: a transaction whose sender is the public key of a key pair verifies
\* right after it is signed with the pair's private key, also when it was
\* signed before with other field values; changing the amount or the
\* recipient of a transaction that verifies makes verification false.
SignatureFollowsFields ==
    [][/\ (/\ last'.op = "sign_transaction"
            /\ last'.raised = ""
            /\ held'.sender_address = last'.address)
              => verify_signature(held') = "True"
       /\ (/\ last'.op \in {"set_amount", "set_recipient"}
            /\ SenderIsKey(held)
            /\ verify_signature(held) = "True"
            /\ held' # held)
              => verify_signature(held') = "False"]_vars

ChangedAfterSigning ==
    /\ last.op = "set_amount"
    /\ held.signature.kind = "bytes"
    /\ get_pem_public_key(held.signature.signer) = held.sender_address
    /\ held.signature.data.recipient_address = held.recipient_address
    /\ held.signature.data.amount # held.amount
    /\ verify_signature(held) = "False"

\* The signature of tx was produced by a private key that does not match
\* the sender
SignedByAnother(tx) ==
    /\ tx.signature.kind = "bytes"
    /\ tx.signature.signer \in Keys
    /\ get_pem_public_key(tx.signature.signer) # tx.sender_address

\* C12: for a sender other than "Network", verify_signature() returns false
\* when the signature is absent and when it was produced by a private key
\* other than the one matching the sender's public key.
UnsignedOrForgedRejected ==
    (/\ last.op = "verify_signature"
     /\ held.sender_address # Network
     /\ (held.signature.kind = "None" \/ SignedByAnother(held)))
        => last.returned = "False"

\* C13: verify_signature() returns true for a transaction whose sender is
\* "Network", whatever its recipient, amount and signature.
NetworkAlwaysVerifies ==
    (last.op = "verify_signature" /\ held.sender_address = Network)
        => (last.returned = "True" /\ last.raised = "")

NetworkGarbageVerified ==
    /\ last.op = "verify_signature"
    /\ held.sender_address = Network
    /\ held.signature = Garbage
    /\ last.returned = "True"

\* C20: sign_transaction on a transaction whose sender is empty raises an
\* error and leaves the signature and every other field as they were.
EmptySenderNotSigned ==
    [][(last'.op = "sign_transaction" /\ held.sender_address = "")
          => (last'.raised = "ValueError" /\ held' = held)]_vars

EmptySenderSigningRaised ==
    /\ last.op = "sign_transaction"
    /\ last.raised = "ValueError"
    /\ held.sender_address = ""
    /\ held.signature = Garbage

\* C21: verify_signature never raises: whatever the sender (empty, not a PEM,
\* a key of another algorithm) and the signature, the call returns a boolean.
VerifyNeverRaises ==
    last.op = "verify_signature"
        => (last.raised = "" /\ last.returned \in {"True", "False"})

(***************************************************************************)
(* Properties of spending.                                                 *)
(***************************************************************************)
\* The transactions of the chain followed by those of the mempool
Recorded == AllTransactions(chain) \o mempool

\* C23: every transaction add_transaction admitted to the mempool, and every
\* transaction in a block of the chain, has a non-negative amount.
AmountsAreNonNegative ==
    \A k \in 1..Len(Recorded) : Recorded[k].amount >= 0

\* C26: no overspending: get_balance(s) >= 0 for every identity s other than
\* "Network" that appears in the chain.  Stated for chains whose amounts are
\* all non-negative, so that what is checked is the admission balance check
\* and not the sign of the amounts.
NoOverspending ==
    (\A k \in 1..Len(AllTransactions(chain)) :
         AllTransactions(chain)[k].amount >= 0)
      => \A s \in Identities(chain) \ {Network} : get_balance(chain, s) >= 0

\* Whether a transaction is a transfer that carries a signature
IsSignedTransfer(tx) ==
    tx.sender_address # Network /\ tx.signature.kind = "bytes"

\* C27: no replay: no signed transfer (same sender, recipient, amount and
\* signature) occurs more than once in the mempool together with the chain.
NoReplay ==
    \A j, k \in 1..Len(Recorded) :
        (IsSignedTransfer(Recorded[j]) /\ Recorded[j] = Recorded[k]) => j = k

\* C30: every block with index > 0 holds exactly one transaction whose
\* sender is "Network": it is the last one of the block, its amount is
\* block_reward, and its recipient is the miner address of the call that
\* mined the block.
OneRewardPerBlock ==
    /\ \A i \in 2..Len(chain) :
           LET txs == chain[i].transactions
           IN  /\ txs # <<>>
               /\ txs[Len(txs)].sender_address = Network
               /\ txs[Len(txs)].amount = block_reward
               /\ \A j \in 1..(Len(txs) - 1) : txs[j].sender_address # Network
    /\ (last.op = "mine_pending_transactions" /\ last.printed = "block added")
          => LatestBlock.transactions[Len(LatestBlock.transactions)]
                 .recipient_address = last.address

\* C25: no admitted transaction is ever lost: a transaction of the mempool
\* is, after every step, still in the mempool or in a block of the chain,
\* also when add_transaction runs between the mempool.copy() and the
\* mempool.clear() of a mine_pending_transactions call in progress.
NoAdmittedTransactionLost ==
    [][\A k \in 1..Len(mempool) :
          \/ \E j \in 1..Len(mempool') : mempool'[j] = mempool[k]
          \/ \E j \in 1..Len(AllTransactions(chain')) :
                 AllTransactions(chain')[j] = mempool[k]]_vars

(***************************************************************************)
(* Properties of calls that break the contract.                            *)
(***************************************************************************)
\* C22: on a ledger whose difficulty is negative, create_genesis_block and
\* mine_pending_transactions raise an error and append no block.
NegativeDifficultyFailsFast ==
    [][(/\ difficulty < 0
        /\ last'.op \in {"create_genesis_block", "mine_pending_transactions"})
          => (last'.raised # "" /\ chain' = chain)]_vars

\* C29: a mine_pending_transactions call either appends one block and
\* empties the mempool, or fails and leaves chain and mempool as they were
\* before the call, also on a ledger without genesis block.
MineIsAllOrNothing ==
    [][last'.op = "mine_pending_transactions"
          => \/ /\ Len(chain') = Len(chain) + 1
                /\ SubSeq(chain', 1, Len(chain)) = chain
                /\ mempool' = <<>>
             \/ /\ last'.raised # ""
                /\ chain' = chain
                /\ mempool' = mempool]_vars

\* C31: the block add_block has appended to a non-empty chain, a block whose
\* hash was set before the call included, has prev_hash = the hash of the
\* block that was last, hash = calculate_hash() of the block with that
\* prev_hash, and a hash with `difficulty` leading zeros.
AddedBlockIsLinkedAndMined ==
    (last.op = "add_block" /\ last.raised = "")
        => /\ LatestBlock.prev_hash = chain[Len(chain) - 1].hash
           /\ LatestBlock.hash = calculate_hash(LatestBlock)
           /\ HasLeadingZeros(LatestBlock.hash, difficulty)
====
